---- MODULE Spec2Model ----
(***************************************************************************)
(* Model of the monitor abstraction of py_utils (stats.py) and of the two  *)
(* view-model layers that run a monitor in a background thread             *)
(* (widgets_tk.py: queue + poll, widgets.py: QThread + wait).              *)
(*                                                                         *)
(* Percentages are Python floats; they are modelled as exact rationals     *)
(* [num, den] so that a mean is the quotient the code computes.            *)
(***************************************************************************)
EXTENDS Integers, Sequences, FiniteSets, TLC

\* ---------------------------------------------------------------- bounds
MaxWindow == 2      \* largest _smoothing_window explored
MaxHist == 2        \* largest history_length explored
NumCores == 1       \* psutil.cpu_count() of the modelled machine
MaxPut == 3         \* items put on the Tk queue in one behaviour
MaxStarts == 2      \* BaseTkViewModel.start() calls that register handlers
MaxHandlers == 2    \* handlers add_handler_on registers for one event
MaxPid == 3         \* largest pid of a running process
MaxHours == 2       \* longest duration given to duration_human, in hours

\* ------------------------------------------------------------- vocabulary
T1 == "t1"
T2 == "t2"
Threads == {T1, T2}
Gui == "gui"
Kinds == {"cpu", "mem", "proc"}
RawVals == {0, 100}
MonitorEvent == {"STARTED", "UPDATED", "FINISHED"}
SourceErrs == {"NoSuchProcess", "AccessDenied", "Error", "HandlerError"}
FinishedHandlerError == "FinishedHandlerError"
NoExc == "none"

VARIABLES
    kind,               \* which subclass of BaseMonitor the object is
    host,               \* who runs start(): "plain" callers, "tk" or "qt" threads
    history_length,     \* BaseMonitor.history_length
    history,            \* BaseMonitor.history (deque, maxlen = history_length)
    smoothing_window,   \* CpuCoresMonitor._smoothing_window
    smoothing_duration_s,   \* the argument CpuCoresMonitor was built with, in tenths of a second
    global_history,     \* CpuCoresMonitor._global_history
    per_cpu_history,    \* CpuCoresMonitor._per_cpu_history
    is_running,         \* BaseMonitor._is_running
    handlers,           \* BaseMonitor._handlers
    pc,                 \* position of each thread inside BaseMonitor.start()
    exc,                \* exception caught by start()'s except clause, per thread
    update_queue,       \* BaseTkViewModel._update_queue
    vm_handlers,        \* BaseTkViewModel._handlers
    last_data,          \* MeterWidget.last_data
    qt_thread,          \* BaseMonitorViewModel._thread
    qt_pc,              \* position of the GUI thread inside BaseMonitorViewModel.stop()
    \* history variables (observations, not program state)
    lastEv,             \* last event handed to _apply_handlers_on
    lastUpdated,        \* args of the last UPDATED event
    rawRun,             \* raw samples of the current run (the last smoothing_window)
    runErr,             \* an exception reached start()'s except clause in this run
    gone,               \* NoSuchProcess was raised in this run
    stopReq,            \* stop() was called on a running monitor, no start() since
    stoppedIn,          \* whether that stop() found the loop of t1 in its interval
    startCalls,         \* per thread: parity of its start() calls on a running monitor
    propagated,         \* exception that left the last start() call, per thread
    nput,               \* number of items put on the Tk queue
    deliveredIds,       \* ids of the queue items handed to the view handlers
    viewRunBy,          \* threads that have run a view handler
    lastAdd,            \* the last add_handler_on call and how it ended
    found,              \* the last find_process_by_id_or_name call and how it ended
    humanized,          \* the last duration_human call and what it returned
    poller,             \* whether poll() is scheduled, and what its handlers did so far
    tk_process          \* the Tk view-model: built or not, ProcessMonitorViewModel._process

monVars == <<kind, host, history_length, history, smoothing_window, smoothing_duration_s, global_history,
             per_cpu_history, is_running, handlers, pc, exc>>
tkVars == <<update_queue, last_data, nput, deliveredIds, viewRunBy>>
uiVars == <<vm_handlers, qt_thread, qt_pc>>
obsVars == <<lastEv, lastUpdated, rawRun, runErr, gone, stopReq, stoppedIn, startCalls, propagated>>
obsVars2 == <<rawRun, runErr, gone, stopReq, stoppedIn, startCalls, propagated>>
otherVars == <<lastAdd, found, humanized, poller, tk_process>>
vars == <<monVars, tkVars, uiVars, obsVars, otherVars>>

\* ------------------------------------------------------------ pure helpers
RECURSIVE SumSeq(_)
SumSeq(s) == IF s = <<>> THEN 0 ELSE Head(s) + SumSeq(Tail(s))

KeepLast(s, n) == IF Len(s) > n THEN SubSeq(s, Len(s) - n + 1, Len(s)) ELSE s

Repeat(x, n) == [i \in 1..n |-> x]

Rat(n, d) == [num |-> n, den |-> d]

RatEq(a, b) == a.num * b.den = b.num * a.den

InPercent(r) == r.den > 0 /\ 0 <= r.num /\ r.num <= 100 * r.den

\* collections.deque(maxlen=n).append(x): the oldest element falls out
DequeAppendKeepsOldest(d, x, maxlen) == IF Len(d) >= maxlen THEN d ELSE Append(d, x)

DequeAppendUnbounded(d, x, maxlen) == Append(d, x)

DequeAppend(d, x, maxlen) == KeepLast(Append(d, x), maxlen)

\* collections.deque(maxlen=n).extend(xs)
DequeExtend(d, xs, maxlen) == KeepLast(d \o xs, maxlen)

\* sum(h) / len(h)
MeanUndivided(h) == Rat(SumSeq(h), 1)

Mean(h) == Rat(SumSeq(h), Len(h))

Max(a, b) == IF a >= b THEN a ELSE b

\* round(n / d) for n >= 0 and d > 0: to the nearest integer, a tie to the even one
Round(n, d) ==
    LET q == n \div d
        r == n % d
    IN  IF 2 * r < d THEN q
        ELSE IF 2 * r > d THEN q + 1
        ELSE IF q % 2 = 0 THEN q ELSE q + 1

\* max(1, round(smoothing_duration_s / self.interval))
SmoothingWindowAtLeastTwo(duration, interval) == Max(2, Round(duration, interval))

SmoothingWindow(duration, interval) == Max(1, Round(duration, interval))

\* the constructor arguments explored, in tenths of a second
DurationVals == {0, 10}
IntervalVals == {3, 5}

\* BaseMonitor.history is None when history_length == 0
HistoryEnabled == history_length > 0

\* ------------------------------------------------------- event dispatching
\* A handler is one of: "h" (a caller's callable, which may raise), "put" (the
\* lambda BaseTkViewModel.start registers, which puts the event on the queue),
\* "view" (a view's on_updated / on_finished bound method), "sig" (the emit
\* of a Qt signal, which only queues the call for the receiver's thread).
HandlerKinds == {"h", "put", "view", "sig"}

TkName(type) == IF type = "UPDATED" THEN "updated"
                ELSE IF type = "FINISHED" THEN "finished" ELSE "started"

\* MeterWidget.on_updated stores the data; on_finished only shows the message
ViewHandle(name, data, cur) == IF name = "updated" THEN data ELSE cur

CountPut(hs) == Cardinality({i \in 1..Len(hs) : hs[i] = "put"})

\* the results a loop over the handlers can have: j handlers completed, and
\* when j < Len(hs) handler j+1 raised
Outcomes(hs) == {Len(hs)} \cup {i - 1 : i \in {k \in 1..Len(hs) : hs[k] = "h"}}

\* the effect of the first j handlers of hs, run on thread t
RECURSIVE RunHandlers(_, _, _, _, _, _)
RunHandlers(hs, j, name, args, t, st) ==
    IF j = 0 THEN st
    ELSE LET p == RunHandlers(hs, j - 1, name, args, t, st)
         IN  IF hs[j] = "put"
             THEN [p EXCEPT !.q = Append(p.q, [name |-> name, data |-> args, id |-> p.n + 1]),
                            !.n = p.n + 1]
             ELSE IF hs[j] = "view"
             THEN [p EXCEPT !.last = ViewHandle(name, args, p.last),
                            !.by = p.by \cup {t}]
             ELSE p

\* the queue can take the items this event would put on it
Room(type) == nput + CountPut(handlers[type]) <= MaxPut

\* the runs the per-run observations are kept for: those of a monitor that
\* only t1 calls start() on
SingleCaller == pc[T2] = "off"

\* the events of the current run, counted up to MaxCount
MaxCount == 3
Count(n, more) == IF more /\ SingleCaller /\ n < MaxCount THEN n + 1 ELSE n

emitVars == <<history, update_queue, nput, last_data, viewRunBy, lastEv, lastUpdated>>

\* BaseMonitor._apply_handlers_on(event_type, *args), j handlers completing
ApplyHandlersOn(t, type, args, j) ==
    LET hs == handlers[type]
        hist == IF type = "UPDATED" /\ HistoryEnabled
                THEN DequeAppend(history, args, history_length) ELSE history
        st == RunHandlers(hs, j, TkName(type), args, t,
                          [q |-> update_queue, n |-> nput, last |-> last_data, by |-> viewRunBy])
    IN  /\ history' = hist
        /\ update_queue' = st.q
        /\ nput' = st.n
        /\ last_data' = st.last
        /\ viewRunBy' = st.by
        /\ lastEv' = [type |-> type, args |-> args, hlen |-> Len(hist), by |-> t,
                      raised |-> j < Len(hs),
                      nstarted |-> Count(lastEv.nstarted, type = "STARTED"),
                      updated |-> (lastEv.updated \/ (type = "UPDATED" /\ SingleCaller)),
                      nfinished |-> Count(lastEv.nfinished, type = "FINISHED"),
                      nlate |-> Count(lastEv.nlate, type = "UPDATED" /\ stopReq)]
        /\ lastUpdated' = IF type = "UPDATED" THEN args ELSE lastUpdated

\* ----------------------------------------------------- BaseMonitor.start()
confVars == <<kind, host, history_length, smoothing_window, smoothing_duration_s>>
winVars == <<global_history, per_cpu_history>>

Returned(t) == IF host = "plain" THEN "idle" ELSE "dead"

Goto(t, l) == pc' = [pc EXCEPT ![t] = l]

\* an exception leaves the try body of start() and reaches its except clause
Raise(t, e) ==
    /\ pc' = [pc EXCEPT ![t] = "except"]
    /\ exc' = [exc EXCEPT ![t] = e]
    /\ runErr' = TRUE

\* `if self._is_running: return`
StartGuardOff(running) == FALSE

StartGuard(running) == running

StartCall(t) ==
    /\ pc[t] = "idle"
    /\ startCalls' = [startCalls EXCEPT ![t] = IF is_running THEN 1 - @ ELSE @]
    /\ IF StartGuard(is_running)
       THEN /\ Goto(t, Returned(t))
            /\ UNCHANGED <<exc, propagated, stopReq, stoppedIn>>
       ELSE /\ Goto(t, "enter")
            /\ exc' = [exc EXCEPT ![t] = NoExc]
            /\ propagated' = [propagated EXCEPT ![t] = NoExc]
            /\ stopReq' = FALSE
            /\ stoppedIn' = "none"
    /\ UNCHANGED <<confVars, otherVars, winVars, emitVars, is_running, handlers, rawRun, runErr, gone,
                   deliveredIds, uiVars>>

\* `self._is_running = True`
SetRunning(t) ==
    /\ pc[t] = "enter"
    /\ is_running' = TRUE
    /\ Goto(t, "setup")
    /\ rawRun' = <<>>
    /\ runErr' = FALSE
    /\ gone' = FALSE
    /\ lastEv' = [lastEv EXCEPT !.nstarted = 0, !.updated = FALSE, !.nfinished = 0, !.nlate = 0]
    /\ UNCHANGED <<confVars, otherVars, winVars, history, update_queue, nput, last_data, viewRunBy,
                   lastUpdated, handlers, exc, stopReq, stoppedIn, startCalls, propagated,
                   deliveredIds, uiVars>>

\* the event _setup emits: MonitorEvent.STARTED
SetupEventUpdated == "UPDATED"

SetupEvent == "STARTED"

\* the STARTED emission that ends every _setup
SetupEmit(t, args, next) ==
    /\ Room(SetupEvent)
    /\ \E j \in Outcomes(handlers[SetupEvent]) :
          /\ ApplyHandlersOn(t, SetupEvent, args, j)
          /\ IF j < Len(handlers[SetupEvent])
             THEN Raise(t, "HandlerError")
             ELSE Goto(t, next) /\ UNCHANGED <<exc, runErr>>

\* CpuCoresMonitor._setup up to the STARTED event
CpuSetup(t) ==
    /\ kind = "cpu"
    /\ \/ /\ Raise(t, "Error")
          /\ UNCHANGED <<winVars, emitVars>>
       \/ /\ global_history' = DequeExtend(global_history, Repeat(0, smoothing_window),
                                           smoothing_window)
          /\ per_cpu_history' = [i \in 1..NumCores |->
                                    DequeExtend(<<>>, Repeat(0, smoothing_window),
                                                smoothing_window)]
          /\ SetupEmit(t, <<>>, "prefill")
    /\ gone' = gone

\* MemoryMonitor._setup
MemSetup(t) ==
    /\ kind = "mem"
    /\ SetupEmit(t, <<>>, "loop")
    /\ UNCHANGED <<winVars, gone>>

\* ProcessCpuMonitor._setup
ProcSetup(t) ==
    /\ kind = "proc"
    /\ \/ \E e \in {"NoSuchProcess", "AccessDenied"} :
             /\ Raise(t, e)
             /\ gone' = (gone \/ e = "NoSuchProcess")
             /\ UNCHANGED emitVars
       \/ /\ SetupEmit(t, <<"pid", "name">>, "loop")
          /\ gone' = gone
    /\ UNCHANGED winVars

Setup(t) ==
    /\ pc[t] = "setup"
    /\ (CpuSetup(t) \/ MemSetup(t) \/ ProcSetup(t))
    /\ UNCHANGED <<confVars, otherVars, is_running, handlers, rawRun, stopReq, stoppedIn, startCalls, propagated,
                   deliveredIds, uiVars>>

\* CpuCoresMonitor._setup after the STARTED event: the padding of the history
PadElement == <<Rat(0, 1), Repeat(Rat(0, 1), NumCores)>>

Prefill(t) ==
    /\ pc[t] = "prefill"
    /\ history' = IF HistoryEnabled
                  THEN DequeExtend(history, Repeat(PadElement, history_length), history_length)
                  ELSE history
    /\ Goto(t, "loop")
    /\ UNCHANGED <<confVars, otherVars, winVars, update_queue, nput, last_data, viewRunBy, lastEv,
                   lastUpdated, is_running, handlers, exc, rawRun, runErr, gone, stopReq, stoppedIn,
                   startCalls, propagated, deliveredIds, uiVars>>

\* --------------------------------------------------------------- _run_loop
\* `while self._is_running:`
LoopTest(t) ==
    /\ pc[t] = "loop"
    /\ Goto(t, IF ~is_running THEN "fin_ok"
               ELSE IF kind = "mem" THEN "sample" ELSE "sleep")
    /\ UNCHANGED <<confVars, otherVars, winVars, emitVars, is_running, handlers, exc, obsVars2,
                   deliveredIds, uiVars>>

\* time.sleep(interval) returns; for a process monitor the blocking
\* self._proc.cpu_percent(interval=self.interval) returns or raises
SleepEnd(t) ==
    /\ pc[t] = "sleep"
    /\ \/ /\ Goto(t, "check")
          /\ UNCHANGED <<exc, runErr, gone>>
       \/ /\ kind = "proc"
          /\ Goto(t, "nsp")
          /\ gone' = TRUE
          /\ UNCHANGED <<exc, runErr>>
       \/ /\ kind = "proc"
          /\ Raise(t, "AccessDenied")
          /\ gone' = gone
    /\ UNCHANGED <<confVars, otherVars, winVars, emitVars, is_running, handlers, rawRun, stopReq, stoppedIn,
                   startCalls, propagated, deliveredIds, uiVars>>

\* `if not self._is_running: break` after the interval
BreakCheckOff(running) == FALSE

BreakCheck(running) == ~running

Check(t) ==
    /\ pc[t] = "check"
    /\ Goto(t, IF BreakCheck(is_running) THEN "fin_ok"
               ELSE IF kind = "mem" THEN "loop" ELSE "sample")
    /\ UNCHANGED <<confVars, otherVars, winVars, emitVars, is_running, handlers, exc, obsVars2,
                   deliveredIds, uiVars>>

\* the UPDATED emission of one polling step
SampleEmit(t, args, next) ==
    /\ Room("UPDATED")
    /\ \E j \in Outcomes(handlers["UPDATED"]) :
          /\ ApplyHandlersOn(t, "UPDATED", args, j)
          /\ IF j < Len(handlers["UPDATED"])
             THEN Raise(t, "HandlerError")
             ELSE Goto(t, next) /\ UNCHANGED <<exc, runErr>>

\* CpuCoresMonitor._run_loop: raw values, windows, means, UPDATED
CpuSample(t) ==
    /\ kind = "cpu"
    /\ \E g \in RawVals, cs \in [1..NumCores -> RawVals] :
          LET gh == DequeAppend(global_history, g, smoothing_window)
              ph == [i \in 1..Len(per_cpu_history) |->
                        IF i <= NumCores
                        THEN DequeAppend(per_cpu_history[i], cs[i], smoothing_window)
                        ELSE per_cpu_history[i]]
          IN  /\ global_history' = gh
              /\ per_cpu_history' = ph
              /\ rawRun' = KeepLast(Append(rawRun, <<g, cs>>), smoothing_window)
              /\ SampleEmit(t, <<Mean(gh), [i \in 1..Len(ph) |-> Mean(ph[i])]>>, "loop")

\* MemoryMonitor._run_loop: virtual_memory(), swap_memory(), UPDATED
MemSample(t) ==
    /\ kind = "mem"
    /\ \E vmem \in RawVals, swap \in RawVals : SampleEmit(t, <<vmem, swap>>, "sleep")
    /\ UNCHANGED <<winVars, rawRun>>

\* ProcessCpuMonitor._run_loop: proc_cpu_percent_raw / self._n_cpu, UPDATED
ProcSample(t) ==
    /\ kind = "proc"
    /\ \E raw \in {0, 100 * NumCores} : SampleEmit(t, <<Rat(raw, NumCores)>>, "loop")
    /\ UNCHANGED <<winVars, rawRun>>

Sample(t) ==
    /\ pc[t] = "sample"
    /\ \/ CpuSample(t) \/ MemSample(t) \/ ProcSample(t)
       \/ /\ kind # "proc"          \* the psutil query itself fails
          /\ Raise(t, "Error")
          /\ UNCHANGED <<winVars, emitVars, rawRun>>
    /\ UNCHANGED <<confVars, otherVars, is_running, handlers, gone, stopReq, stoppedIn, startCalls, propagated,
                   deliveredIds, uiVars>>

\* ProcessCpuMonitor._run_loop: `except psutil.NoSuchProcess:`
NoSuchProc(t) ==
    /\ pc[t] = "nsp"
    /\ Room("FINISHED")
    /\ \E j \in Outcomes(handlers["FINISHED"]) :
          /\ ApplyHandlersOn(t, "FINISHED", <<TRUE, <<"Le processus s'est termine.", NoExc>>>>, j)
          /\ IF j < Len(handlers["FINISHED"])
             THEN Raise(t, FinishedHandlerError) /\ UNCHANGED is_running
             ELSE /\ is_running' = FALSE
                  /\ Goto(t, "fin_ok")
                  /\ UNCHANGED <<exc, runErr>>
    /\ UNCHANGED <<confVars, otherVars, winVars, handlers, rawRun, gone, stopReq, stoppedIn, startCalls, propagated,
                   deliveredIds, uiVars>>

\* ------------------------------------------- the end of BaseMonitor.start()
FinishedArgs == <<TRUE, <<"Surveillance terminee.", NoExc>>>>

\* `self._apply_handlers_on(MonitorEvent.FINISHED, True, ...)` after _run_loop
FinishOk(t) ==
    /\ pc[t] = "fin_ok"
    /\ Room("FINISHED")
    /\ \E j \in Outcomes(handlers["FINISHED"]) :
          /\ ApplyHandlersOn(t, "FINISHED", FinishedArgs, j)
          /\ IF j < Len(handlers["FINISHED"])
             THEN Raise(t, FinishedHandlerError)
             ELSE Goto(t, "finally") /\ UNCHANGED <<exc, runErr>>
    /\ UNCHANGED <<confVars, otherVars, winVars, is_running, handlers, rawRun, gone, stopReq, stoppedIn, startCalls,
                   propagated, deliveredIds, uiVars>>

\* (False, f"Erreur inattendue: {e}")
ExceptArgsSuccess(e) == <<TRUE, <<"Erreur inattendue: ", e>>>>

ExceptArgs(e) == <<FALSE, <<"Erreur inattendue: ", e>>>>

\* `except Exception as e:`; an exception a FINISHED handler raises here
\* leaves start() through the finally clause
Except(t) ==
    /\ pc[t] = "except"
    /\ Room("FINISHED")
    /\ \E j \in Outcomes(handlers["FINISHED"]) :
          /\ ApplyHandlersOn(t, "FINISHED", ExceptArgs(exc[t]), j)
          /\ propagated' = [propagated EXCEPT ![t] =
                               IF j < Len(handlers["FINISHED"])
                               THEN FinishedHandlerError ELSE NoExc]
    /\ Goto(t, "finally")
    /\ UNCHANGED <<confVars, otherVars, winVars, is_running, handlers, exc, rawRun, runErr, gone, stopReq, stoppedIn,
                   startCalls, deliveredIds, uiVars>>

\* `finally: self._is_running = False`, and start() returns
Finally(t) ==
    /\ pc[t] = "finally"
    /\ is_running' = FALSE
    /\ Goto(t, Returned(t))
    /\ UNCHANGED <<confVars, otherVars, winVars, emitVars, handlers, exc, obsVars2, deliveredIds, uiVars>>

\* ------------------------------------------------------ BaseMonitor.stop()
\* where a stop() on a running monitor finds the loop: blocked in
\* time.sleep(interval) / cpu_percent(interval=...), or elsewhere
StopSeen ==
    IF stopReq \/ ~is_running \/ ~SingleCaller THEN stoppedIn
    ELSE IF pc[T1] = "sleep" THEN "sleep" ELSE "awake"

StopNothing ==
    /\ host = "plain"
    /\ is_running' = is_running
    /\ stopReq' = (stopReq \/ is_running)
    /\ stoppedIn' = StopSeen
    /\ UNCHANGED <<confVars, otherVars, winVars, emitVars, handlers, pc, exc, rawRun, runErr, gone,
                   startCalls, propagated, deliveredIds, uiVars>>

Stop ==
    /\ host = "plain"
    /\ is_running' = FALSE
    /\ stopReq' = (stopReq \/ is_running)
    /\ stoppedIn' = StopSeen
    /\ UNCHANGED <<confVars, otherVars, winVars, emitVars, handlers, pc, exc, rawRun, runErr, gone,
                   startCalls, propagated, deliveredIds, uiVars>>

\* the steps a thread takes inside start()
Step(t) ==
    \/ SetRunning(t) \/ Setup(t) \/ Prefill(t) \/ LoopTest(t) \/ SleepEnd(t) \/ Check(t)
    \/ Sample(t) \/ NoSuchProc(t) \/ FinishOk(t) \/ Except(t) \/ Finally(t)

\* ------------------------------------------- BaseMonitor.add_handler_on()
\* A str is the sequence of its characters.  The letters event names are
\* written with, in lower and in upper case:
LowerLetters == <<"a", "d", "e", "f", "h", "i", "n", "o", "p", "r", "s", "t", "u">>
UpperLetters == <<"A", "D", "E", "F", "H", "I", "N", "O", "P", "R", "S", "T", "U">>

UpperChar(c) ==
    IF \E k \in 1..Len(LowerLetters) : LowerLetters[k] = c
    THEN UpperLetters[CHOOSE k \in 1..Len(LowerLetters) : LowerLetters[k] = c]
    ELSE c

\* str.upper()
StrUpperNone(s) == s

StrUpper(s) == [i \in 1..Len(s) |-> UpperChar(s[i])]

\* the names of the members of the enum MonitorEvent
MemberName == [e \in MonitorEvent |->
                  IF e = "STARTED" THEN <<"S", "T", "A", "R", "T", "E", "D">>
                  ELSE IF e = "UPDATED" THEN <<"U", "P", "D", "A", "T", "E", "D">>
                  ELSE <<"F", "I", "N", "I", "S", "H", "E", "D">>]

\* MonitorEvent[name]: the member of that exact name, or KeyError
EnumLookup(name) ==
    IF \E e \in MonitorEvent : MemberName[e] = name
    THEN CHOOSE e \in MonitorEvent : MemberName[e] = name
    ELSE "KeyError"

\* the event add_handler_on appends to, or the exception it raises; a str
\* goes through MonitorEvent[event_type.upper()], a member is used as it is
ResolveEventType(isStr, name) ==
    LET e == IF isStr THEN EnumLookup(StrUpper(name)) ELSE EnumLookup(name)
    IN  IF e = "KeyError" \/ e \notin DOMAIN handlers THEN "ValueError" ELSE e

\* the str arguments explored
NameInputs == {
    <<"s", "t", "a", "r", "t", "e", "d">>,
    <<"U", "p", "d", "a", "t", "e", "d">>,
    <<"f", "I", "n", "I", "s", "H", "e", "D">>,
    <<"F", "I", "N", "I", "S", "H", "E", "D">>,
    <<"s", "t", "o", "p", "p", "e", "d">>,
    <<"u", "p", "d", "a", "t", "e">>,
    <<>> }

AddHandlerOn(isStr, name, handler) ==
    LET r == ResolveEventType(isStr, name)
    IN  /\ r \in MonitorEvent => Len(handlers[r]) < MaxHandlers
        /\ handlers' = IF r \in MonitorEvent
                       THEN [handlers EXCEPT ![r] = Append(@, handler)]
                       ELSE handlers
        /\ lastAdd' = [isStr |-> isStr, name |-> name, handler |-> handler,
                       raised |-> IF r \in MonitorEvent THEN NoExc ELSE r,
                       n |-> 1 - lastAdd.n]
        /\ UNCHANGED <<confVars, winVars, emitVars, is_running, pc, exc, obsVars2,
                       deliveredIds, uiVars, found, humanized, poller,
                       tk_process>>

\* a caller registers a handler on a monitor that is not running
AddHandler ==
    \/ \E e \in MonitorEvent : AddHandlerOn(FALSE, MemberName[e], "h")
    \/ \E s \in NameInputs : AddHandlerOn(TRUE, s, "h")

\* ------------------------------------------- find_process_by_id_or_name()
\* A str is the sequence of its characters.
Digits == <<"0", "1", "2", "3", "4", "5", "6", "7", "8", "9">>

IsDigit(c) == \E k \in 1..Len(Digits) : Digits[k] = c

DigitVal(c) == (CHOOSE k \in 1..Len(Digits) : Digits[k] = c) - 1

RECURSIVE DigitsVal(_)
DigitsVal(s) == IF s = <<>> THEN 0
                ELSE 10 * DigitsVal(SubSeq(s, 1, Len(s) - 1)) + DigitVal(s[Len(s)])

\* int(identifier): an optional sign and decimal digits, or ValueError
ParseInt(s) ==
    LET signed == s # <<>> /\ s[1] \in {"-", "+"}
        ds == IF signed THEN Tail(s) ELSE s
    IN  IF ds # <<>> /\ \A i \in 1..Len(ds) : IsDigit(ds[i])
        THEN [ok |-> TRUE, val |-> IF signed /\ s[1] = "-" THEN 0 - DigitsVal(ds)
                                   ELSE DigitsVal(ds)]
        ELSE [ok |-> FALSE, val |-> 0]

\* the names running processes can have, and the process tables: the name
\* of each pid, <<>> for a pid no process has
ProcNames == {<<"s", "h">>, <<"2">>, <<"-", "1">>}
ProcessTables == [1..MaxPid -> ProcNames \cup {<<>>}]

\* psutil.Process(pid): ValueError for a negative pid, NoSuchProcess when no
\* process has that pid
PsutilProcess(pid, table) ==
    IF pid < 0 THEN [outcome |-> "ValueError", pid |-> 0]
    ELSE IF pid \in DOMAIN table /\ table[pid] # <<>>
    THEN [outcome |-> "return", pid |-> pid]
    ELSE [outcome |-> "NoSuchProcess", pid |-> 0]

\* the search of psutil.process_iter() for the processes of that name
FindByName(identifier, table) ==
    LET found_procs == {p \in DOMAIN table : table[p] # <<>> /\ table[p] = identifier}
    IN  IF found_procs = {} \/ Cardinality(found_procs) > 1
        THEN [outcome |-> "ValueError", pid |-> 0]
        ELSE PsutilProcess(CHOOSE p \in found_procs : TRUE, table)

\* the outer `except ValueError:` catches the failure of int() and any
\* ValueError of psutil.Process(pid) alike
FindProcessByIdOrName(identifier, table) ==
    LET n == ParseInt(identifier)
        byPid == PsutilProcess(n.val, table)
    IN  IF n.ok /\ byPid.outcome # "ValueError"
        THEN [outcome |-> byPid.outcome, pid |-> byPid.pid, byName |-> FALSE]
        ELSE LET r == FindByName(identifier, table)
             IN  [outcome |-> r.outcome, pid |-> r.pid, byName |-> TRUE]

\* the identifiers explored
IdInputs == {<<"1">>, <<"2">>, <<"1", "2">>, <<"-", "1">>, <<"s", "h">>, <<"s">>, <<>>}

Find(identifier, table) ==
    LET r == FindProcessByIdOrName(identifier, table)
    IN  /\ found' = [id |-> identifier, table |-> table, outcome |-> r.outcome,
                     pid |-> r.pid, byName |-> r.byName]
        /\ UNCHANGED <<monVars, tkVars, uiVars, obsVars, lastAdd, humanized, poller, tk_process>>

FindCall == \E identifier \in IdInputs, table \in ProcessTables : Find(identifier, table)

\* ------------------------------------------------------ duration_human()
\* A duration d is given in half milliseconds (d = halves / 2000 seconds);
\* the returned text is the sequence of its fields, each a value and a unit.
\* int(d_float * 1000) drops the fraction of a millisecond.
DurationHuman(halves, short) ==
    LET total_milliseconds == halves \div 2
        ms == total_milliseconds % 1000
        total_seconds == total_milliseconds \div 1000
        sec == total_seconds % 60
        m == (total_seconds \div 60) % 60
        h == total_seconds \div 3600
        hours == IF h > 0 \/ ~short THEN <<[val |-> h, unit |-> "h"]>> ELSE <<>>
        minutes == IF h > 0 \/ m > 0 \/ ~short THEN <<[val |-> m, unit |-> "m"]>> ELSE <<>>
        millis == IF ms > 0 /\ ~short THEN <<[val |-> ms, unit |-> "ms"]>> ELSE <<>>
    IN  hours \o minutes \o <<[val |-> sec, unit |-> "s"]>> \o millis

\* the durations explored
DurationInputs ==
    {2 * (1000 * (3600 * h + 60 * m + sec)) + f :
        h \in 0..MaxHours, m \in {0, 1, 59}, sec \in {0, 1, 59}, f \in {0, 1, 1001}}

Humanize(halves, short) ==
    /\ humanized' = [d |-> halves, short |-> short, parts |-> DurationHuman(halves, short)]
    /\ UNCHANGED <<monVars, tkVars, uiVars, obsVars, lastAdd, found, poller, tk_process>>

HumanizeCall == \E halves \in DurationInputs, short \in BOOLEAN : Humanize(halves, short)

\* ------------------------------------------------------------ initial states
NoDuration == [d |-> 0, short |-> TRUE, parts |-> <<>>]

NoFind == [id |-> <<>>, table |-> <<>>, outcome |-> "none", pid |-> 0, byName |-> FALSE]

NoAdd == [isStr |-> FALSE, name |-> <<>>, handler |-> "none", raised |-> NoExc, n |-> 0]

NoEvent == [type |-> "NONE", args |-> <<>>, hlen |-> 0, by |-> "none", raised |-> FALSE,
            nstarted |-> 0, updated |-> FALSE, nfinished |-> 0, nlate |-> 0]

\* a view-model before its constructor has run; one that was built and, for
\* a ProcessMonitorViewModel, found its process
NoVm == [built |-> FALSE, attached |-> FALSE, lookup |-> "none", raised |-> NoExc, starts |-> 0]
BuiltVm == [built |-> TRUE, attached |-> TRUE, lookup |-> "return", raised |-> NoExc, starts |-> 0]

\* the fields of a monitor after BaseMonitor.__init__, and the observations
InitFields ==
    /\ kind \in Kinds
    /\ history_length \in 0..MaxHist
    /\ history = <<>>
    /\ IF kind = "cpu"
       THEN /\ smoothing_duration_s \in DurationVals
            /\ \E interval \in IntervalVals :
                  smoothing_window = SmoothingWindow(smoothing_duration_s, interval)
            /\ smoothing_window <= MaxWindow
       ELSE smoothing_duration_s = 0 /\ smoothing_window = 1   \* only CpuCoresMonitor smooths
    /\ global_history = <<>>
    /\ per_cpu_history = <<>>
    /\ is_running = FALSE
    /\ exc = [t \in Threads |-> NoExc]
    /\ update_queue = <<>>
    /\ last_data = <<>>
    /\ qt_thread = "none"
    /\ qt_pc = "ready"
    /\ lastEv = NoEvent
    /\ lastUpdated = <<>>
    /\ rawRun = <<>>
    /\ runErr = FALSE
    /\ gone = FALSE
    /\ stopReq = FALSE
    /\ stoppedIn = "none"
    /\ startCalls = [t \in Threads |-> 0]
    /\ propagated = [t \in Threads |-> NoExc]
    /\ nput = 0
    /\ deliveredIds = <<>>
    /\ viewRunBy = {}
    /\ lastAdd = NoAdd
    /\ found = NoFind
    /\ humanized = NoDuration
    /\ poller = [scheduled |-> FALSE, raised |-> FALSE, skipped |-> FALSE]

\* the state after the constructors, common to every configuration
InitObject ==
    /\ InitFields
    /\ tk_process = BuiltVm

UserHandlers == [e \in MonitorEvent |-> <<"h">>]

\* the configurations with either a smoothing window or a history of
\* more than one entry
OneLongBuffer == smoothing_window = 1 \/ history_length <= 1

\* the configurations with a window and a history of at most one entry
ShortBuffers == smoothing_window = 1 /\ history_length <= 1

\* one thread calls start() on a monitor, any thread may call stop()
Init ==
    /\ InitObject
    /\ OneLongBuffer
    /\ host = "plain"
    /\ handlers = UserHandlers
    /\ vm_handlers = [updated |-> <<>>, finished |-> <<>>]
    /\ pc = [t \in Threads |-> IF t = T1 THEN "idle" ELSE "off"]

Next ==
    \/ \E t \in Threads : StartCall(t)
    \/ \E t \in Threads : Step(t)
    \/ Stop

Spec == Init /\ [][Next]_vars

\* several threads call start() on the same monitor
InitMT ==
    /\ InitObject
    /\ ShortBuffers
    /\ host = "plain"
    /\ handlers = [e \in MonitorEvent |-> <<>>]
    /\ vm_handlers = [updated |-> <<>>, finished |-> <<>>]
    /\ pc = [t \in Threads |-> "idle"]

SpecMT == InitMT /\ [][Next]_vars

\* a thread that is inside start() keeps running
Fairness == \A t \in Threads : WF_vars(Step(t))

InitLive ==
    /\ InitObject
    /\ ShortBuffers
    /\ host = "plain"
    /\ handlers = UserHandlers
    /\ vm_handlers = [updated |-> <<>>, finished |-> <<>>]
    /\ pc = [t \in Threads |-> IF t = T1 THEN "idle" ELSE "off"]

FairSpec == InitLive /\ [][Next]_vars /\ Fairness

\* a monitor after construction, on which callers register handlers
InitAdd ==
    /\ InitObject
    /\ ShortBuffers
    /\ host = "plain"
    /\ handlers = [e \in MonitorEvent |-> <<>>]
    /\ vm_handlers = [updated |-> <<>>, finished |-> <<>>]
    /\ pc = [t \in Threads |-> "off"]

SpecAdd == InitAdd /\ [][AddHandler]_vars

\* callers look processes up; no monitor runs
InitFind ==
    /\ InitObject
    /\ ShortBuffers
    /\ kind = "proc"
    /\ history_length = 0
    /\ host = "plain"
    /\ handlers = [e \in MonitorEvent |-> <<>>]
    /\ vm_handlers = [updated |-> <<>>, finished |-> <<>>]
    /\ pc = [t \in Threads |-> "off"]

SpecFind == InitFind /\ [][FindCall]_vars

\* callers format durations; no monitor runs
SpecDuration == InitFind /\ [][HumanizeCall]_vars

\* ------------------------------------------------ widgets_tk.py view-model
\* the handler BaseTkViewModel.start registers on the monitor for an event
TkMonitorHandlerDirect == "view"

TkMonitorHandler == "put"

ThreadAlive == pc[T1] \notin {"off", "dead"}

\* ProcessMonitorViewModel._attach_process(): the lookup, and on ValueError
\* or NoSuchProcess the message for the UI; any other exception leaves
\* __init__
AttachProcess(identifier, table) ==
    LET r == FindProcessByIdOrName(identifier, table)
    IN  IF r.outcome = "return"
        THEN /\ tk_process' = [tk_process EXCEPT !.built = TRUE, !.attached = TRUE,
                                                 !.lookup = r.outcome]
             /\ UNCHANGED <<update_queue, nput>>
        ELSE IF r.outcome \in {"ValueError", "NoSuchProcess"}
        THEN /\ update_queue' = Append(update_queue,
                                       [name |-> "finished", data |-> <<FALSE, <<"", r.outcome>>>>,
                                        id |-> nput + 1])
             /\ nput' = nput + 1
             /\ tk_process' = [tk_process EXCEPT !.built = TRUE, !.attached = FALSE,
                                                 !.lookup = r.outcome]
        ELSE /\ tk_process' = [tk_process EXCEPT !.lookup = r.outcome, !.raised = r.outcome]
             /\ UNCHANGED <<update_queue, nput>>

\* the constructor of a Tk view-model; the one of ProcessMonitorViewModel
\* ends with _attach_process()
TkConstruct ==
    /\ host = "tk"
    /\ ~tk_process.built /\ tk_process.raised = NoExc
    /\ IF kind = "proc"
       THEN \E identifier \in IdInputs, table \in ProcessTables :
               AttachProcess(identifier, table)
       ELSE /\ tk_process' = BuiltVm
            /\ UNCHANGED <<update_queue, nput>>
    /\ UNCHANGED <<confVars, lastAdd, found, humanized, poller, winVars, history, last_data,
                   viewRunBy, lastEv, lastUpdated, is_running, handlers, pc, exc, obsVars2,
                   deliveredIds, uiVars>>

\* ProcessMonitorViewModel.start(): `if not self._process: return`
NoProcessGuardOff(attached) == FALSE

NoProcessGuard(attached) == ~attached

\* BaseTkViewModel.start(); ProcessMonitorViewModel.start() returns at once
\* without a process and else first replaces the monitor by a new
\* ProcessMonitor
TkStart ==
    /\ host = "tk"
    /\ tk_process.built
    /\ IF kind = "proc" /\ NoProcessGuard(tk_process.attached)
       THEN /\ tk_process' = [tk_process EXCEPT !.starts = 1 - @]
            /\ UNCHANGED <<handlers, is_running, history, pc>>
       ELSE /\ Len(handlers["UPDATED"]) < MaxStarts
            /\ ~ThreadAlive
            /\ LET hs == IF kind = "proc" THEN [e \in MonitorEvent |-> <<>>] ELSE handlers
               IN  handlers' = [hs EXCEPT !["UPDATED"] = Append(@, TkMonitorHandler),
                                          !["FINISHED"] = Append(@, TkMonitorHandler)]
            /\ is_running' = IF kind = "proc" THEN FALSE ELSE is_running
            /\ history' = IF kind = "proc" THEN <<>> ELSE history
            /\ pc' = [pc EXCEPT ![T1] = "idle"]
            /\ UNCHANGED tk_process
    /\ UNCHANGED <<confVars, lastAdd, found, humanized, poller, winVars, update_queue, nput,
                   last_data, viewRunBy, lastEv, lastUpdated, exc, obsVars2, deliveredIds,
                   uiVars>>

\* BaseTkViewModel.stop()
TkStop ==
    /\ host = "tk"
    /\ ThreadAlive
    /\ is_running' = FALSE
    /\ stopReq' = (stopReq \/ is_running)
    /\ stoppedIn' = StopSeen
    /\ UNCHANGED <<confVars, otherVars, winVars, emitVars, handlers, pc, exc, rawRun, runErr, gone,
                   startCalls, propagated, deliveredIds, uiVars>>

\* queue.Queue.get_nowait()
QueueGetNewest(q) == [item |-> q[Len(q)], rest |-> SubSeq(q, 1, Len(q) - 1)]

QueueGet(q) == [item |-> Head(q), rest |-> Tail(q)]

\* BaseTkViewModel.start_polling(): poll() runs and from then on is scheduled
StartPolling ==
    /\ host = "tk"
    /\ tk_process.built
    /\ ~poller.scheduled
    /\ poller' = [poller EXCEPT !.scheduled = TRUE]
    /\ UNCHANGED <<monVars, tkVars, uiVars, obsVars, lastAdd, found, humanized, tk_process>>

\* `finally: root_widget.after(100, poll)`: whether poll() runs again
RescheduleUnlessRaised(raised) == ~raised

RescheduleAfter(raised) == TRUE

\* one run of the poll() callback of BaseTkViewModel.start_polling; j of the
\* handlers complete, and when j < Len(hs) handler j+1 raised
Poll ==
    /\ host = "tk"
    /\ poller.scheduled
    /\ IF update_queue = <<>>
       THEN /\ poller' = [poller EXCEPT !.scheduled = RescheduleAfter(FALSE)]
            /\ UNCHANGED <<update_queue, last_data, viewRunBy, deliveredIds>>
       ELSE LET got == QueueGet(update_queue)
                hs == IF got.item.name \in DOMAIN vm_handlers
                      THEN vm_handlers[got.item.name] ELSE <<>>
            IN  \E j \in Outcomes(hs) :
                   LET st == RunHandlers(hs, j, got.item.name, got.item.data, Gui,
                                         [q |-> got.rest, n |-> nput, last |-> last_data,
                                          by |-> viewRunBy])
                   IN  /\ update_queue' = st.q
                       /\ last_data' = st.last
                       /\ viewRunBy' = st.by
                       /\ deliveredIds' = Append(deliveredIds, got.item.id)
                       /\ poller' = [scheduled |-> RescheduleAfter(j < Len(hs)),
                                     raised |-> (poller.raised \/ j < Len(hs)),
                                     skipped |-> (poller.skipped \/ j + 1 < Len(hs))]
    /\ UNCHANGED <<confVars, lastAdd, found, humanized, tk_process, winVars, history, nput, lastEv,
                   lastUpdated, is_running, handlers, pc, exc, obsVars2, uiVars>>

\* a Tk view-model about to be built, to which one MeterWidget subscribes
InitTk ==
    /\ InitFields
    /\ tk_process = NoVm
    /\ ShortBuffers
    /\ host = "tk"
    /\ handlers = [e \in MonitorEvent |-> <<>>]
    /\ vm_handlers = [updated |-> <<"view">>, finished |-> <<"view">>]
    /\ pc = [t \in Threads |-> "off"]

NextTk == TkConstruct \/ TkStart \/ TkStop \/ StartPolling \/ Poll \/ StartCall(T1) \/ Step(T1)

SpecTk == InitTk /\ [][NextTk]_vars

\* what the thread of a started monitor does to the view-model, whatever
\* its kind: it emits UPDATED and FINISHED events, which run the put lambdas
EmitArgs(type) == IF type = "UPDATED" THEN {<<Rat(v, 1)>> : v \in RawVals} ELSE {FinishedArgs}

MonitorEmits ==
    /\ host = "tk"
    /\ \E type \in {"UPDATED", "FINISHED"} : \E args \in EmitArgs(type) :
          /\ Room(type)
          /\ ApplyHandlersOn(T1, type, args, Len(handlers[type]))
    /\ UNCHANGED <<confVars, otherVars, winVars, is_running, handlers, pc, exc, obsVars2,
                   deliveredIds, uiVars>>

\* a Tk view-model after start(), for which a callable that may raise was
\* registered with add_handler before the MeterWidget subscribed
InitTkPoll ==
    /\ InitObject
    /\ ShortBuffers
    /\ history_length = 0
    /\ host = "tk"
    /\ handlers = [e \in MonitorEvent |-> IF e = "STARTED" THEN <<>> ELSE <<TkMonitorHandler>>]
    /\ vm_handlers = [updated |-> <<"h", "view">>, finished |-> <<"view">>]
    /\ pc = [t \in Threads |-> "off"]

NextTkPoll == StartPolling \/ Poll \/ MonitorEmits

\* the Tk main loop runs the callbacks that root_widget.after() scheduled
FairSpecTk == InitTkPoll /\ [][NextTkPoll]_vars /\ WF_vars(Poll)

\* --------------------------------------------------- widgets.py view-model
\* BaseMonitorViewModel.start(): a new thread with a new monitor
QtStart ==
    /\ host = "qt"
    /\ qt_pc = "ready"
    /\ ~(qt_thread # "none" /\ ThreadAlive)
    /\ qt_thread' = "thread"
    /\ handlers' = [e \in MonitorEvent |-> <<"sig">>]
    /\ is_running' = FALSE
    /\ history' = <<>>
    /\ global_history' = <<>>
    /\ per_cpu_history' = <<>>
    /\ pc' = [pc EXCEPT ![T1] = "idle"]
    /\ UNCHANGED <<confVars, otherVars, update_queue, nput, last_data, viewRunBy, lastEv, lastUpdated,
                   exc, obsVars2, deliveredIds, vm_handlers, qt_pc>>

\* BaseMonitorViewModel.stop() up to self._thread.stop()
QtStop ==
    /\ host = "qt"
    /\ qt_pc = "ready"
    /\ qt_thread # "none"
    /\ is_running' = FALSE
    /\ stopReq' = (stopReq \/ is_running)
    /\ stoppedIn' = StopSeen
    /\ qt_pc' = "wait"
    /\ UNCHANGED <<confVars, otherVars, winVars, emitVars, handlers, pc, exc, rawRun, runErr, gone,
                   startCalls, propagated, deliveredIds, vm_handlers, qt_thread>>

\* self._thread.wait() returns once run() has returned; self._thread = None
QtWait ==
    /\ host = "qt"
    /\ qt_pc = "wait"
    /\ pc[T1] = "dead"
    /\ qt_thread' = "none"
    /\ qt_pc' = "ready"
    /\ UNCHANGED <<confVars, otherVars, winVars, emitVars, handlers, is_running, pc, exc, obsVars2,
                   deliveredIds, vm_handlers>>

InitQt ==
    /\ InitObject
    /\ ShortBuffers
    /\ host = "qt"
    /\ handlers = [e \in MonitorEvent |-> <<>>]
    /\ vm_handlers = [updated |-> <<>>, finished |-> <<>>]
    /\ pc = [t \in Threads |-> "off"]

NextQt == QtStart \/ QtStop \/ QtWait \/ StartCall(T1) \/ Step(T1)

SpecQt == InitQt /\ [][NextQt]_vars

\* the monitor thread runs, and a wait() whose thread has finished returns
FairSpecQt == SpecQt /\ WF_vars(StartCall(T1)) /\ WF_vars(Step(T1)) /\ WF_vars(QtWait)

\* =================================================================== claims
RawGlobals == [i \in 1..Len(rawRun) |-> rawRun[i][1]]
RawCore(c) == [i \in 1..Len(rawRun) |-> rawRun[i][2][c]]

UpdatedIsMeanOfRawSamples ==
    (kind = "cpu" /\ lastEv.type = "UPDATED") =>
        /\ RatEq(lastEv.args[1], Mean(RawGlobals))
        /\ \A c \in 1..NumCores : RatEq(lastEv.args[2][c], Mean(RawCore(c)))

\* C2 (amended): every UPDATED value is the sum of the last N raw samples of
\* the run divided by N, the samples the run has not taken yet counting as
\* 0.0; it is their mean as soon as the run has taken N samples.
UpdatedIsMeanOfZeroPaddedWindow ==
    (kind = "cpu" /\ lastEv.type = "UPDATED") =>
        /\ RatEq(lastEv.args[1], Rat(SumSeq(RawGlobals), smoothing_window))
        /\ \A c \in 1..NumCores :
              RatEq(lastEv.args[2][c], Rat(SumSeq(RawCore(c)), smoothing_window))
        /\ Len(rawRun) = smoothing_window =>
              /\ RatEq(lastEv.args[1], Mean(RawGlobals))
              /\ \A c \in 1..NumCores : RatEq(lastEv.args[2][c], Mean(RawCore(c)))

\* a full window of differing samples has been averaged
WindowOfDifferingSamples ==
    /\ kind = "cpu" /\ lastEv.type = "UPDATED"
    /\ smoothing_window >= 2 /\ Len(rawRun) = smoothing_window
    /\ rawRun[1][1] = 100 /\ rawRun[Len(rawRun)][1] = 0
    /\ lastEv.args[1].num > 0

\* C3: a stop() on a running monitor, with no start() after it, leads to the
\* end of the run: start() has returned, FINISHED was the last event (with
\* success=True unless an error occurred) and is_running() is False, and it
\* stays False as long as start() is not called.
RunEnded ==
    /\ pc[T1] = "idle" /\ ~is_running
    /\ lastEv.type = "FINISHED"
    /\ ~runErr => lastEv.args[1] = TRUE

StopEndsTheRun ==
    /\ (stopReq /\ pc[T1] # "idle") ~> (stopReq /\ RunEnded)
    /\ [][(stopReq /\ stopReq' /\ ~is_running) => ~is_running']_vars

\* a run that was stopped has ended normally
StoppedRunFinished ==
    /\ stopReq /\ RunEnded /\ ~runErr
    /\ lastEv.args = FinishedArgs

\* C4: when a ProcessCpuMonitor found its process gone (in _setup or in the
\* loop), the run ended with FINISHED success=True and is_running() False.
GoneProcessIsNormalEnd ==
    \A t \in Threads :
        (kind = "proc" /\ gone /\ pc[t] = "idle" /\ exc[t] # FinishedHandlerError) =>
            /\ lastEv.type = "FINISHED" /\ lastEv.args[1] = TRUE
            /\ ~is_running

\* C5: an exception of _setup, of sampling or of a STARTED/UPDATED handler
\* does not leave start(): when start() has returned, the last event is
\* FINISHED with success=False and a message carrying the error, and
\* is_running() is False.
ErrorsAreReported ==
    \A t \in Threads :
        (pc[t] = "idle" /\ exc[t] \in SourceErrs) =>
            /\ propagated[t] \notin SourceErrs
            /\ lastEv.type = "FINISHED"
            /\ lastEv.args[1] = FALSE
            /\ lastEv.args[2][2] = exc[t]
            /\ ~is_running

\* start() has returned after a permission error
AccessDeniedReported ==
    /\ pc[T1] = "idle" /\ exc[T1] = "AccessDenied"
    /\ lastEv.type = "FINISHED" /\ lastEv.raised = FALSE

GuardedStartDoesNothing ==
    [][\A t \in Threads :
          (startCalls'[t] # startCalls[t] /\ is_running) =>
              /\ pc'[t] = pc[t]
              /\ UNCHANGED <<is_running, handlers, history, winVars, lastEv, lastUpdated,
                             update_queue, exc>>]_vars

\* a second thread's start() returned at the guard while the first one runs
GuardedStartHappened ==
    /\ startCalls[T2] = 1 /\ pc[T2] = "idle"
    /\ is_running /\ pc[T1] = "sleep"

QueueIds == [i \in 1..Len(update_queue) |-> update_queue[i].id]

\* C8: in the Tk view-models the monitor thread only puts events on the queue
\* (the monitor's handlers are the put lambdas) and a view handler is only
\* ever run by the GUI thread, from poll().
ViewHandlersRunOnGuiThread ==
    host = "tk" =>
        /\ viewRunBy \subseteq {Gui}
        /\ \A e \in MonitorEvent : \A i \in 1..Len(handlers[e]) : handlers[e][i] = "put"

\* the view has received a sample
ViewReceivedSample ==
    /\ host = "tk" /\ viewRunBy = {Gui}
    /\ last_data # <<>> /\ Len(deliveredIds) >= 2

QtStopReturns ==
    (host = "qt" /\ qt_pc = "wait") ~>
        (qt_pc = "ready" /\ qt_thread = "none" /\ pc[T1] = "dead")

\* the same letters, whatever their case
SameLetters(a, b) ==
    /\ Len(a) = Len(b)
    /\ \A i \in 1..Len(a) :
          \/ a[i] = b[i]
          \/ \E k \in 1..Len(LowerLetters) :
                {a[i], b[i]} = {LowerLetters[k], UpperLetters[k]}

\* the event an argument names, if any
NamedEvents(add) ==
    {e \in MonitorEvent : IF add.isStr THEN SameLetters(add.name, MemberName[e])
                          ELSE add.name = MemberName[e]}

\* C11: add_handler_on with a member of MonitorEvent, or with its name in any
\* letter case, appends the handler to that event's list and leaves the other
\* lists unchanged; with any other name it raises ValueError and leaves every
\* list unchanged.
AddHandlerOnAppendsOrRejects ==
    [][lastAdd'.n # lastAdd.n =>
          IF NamedEvents(lastAdd') # {}
          THEN /\ lastAdd'.raised = NoExc
               /\ \E e \in NamedEvents(lastAdd') :
                     handlers' = [handlers EXCEPT ![e] = Append(@, lastAdd'.handler)]
          ELSE /\ lastAdd'.raised = "ValueError"
               /\ handlers' = handlers]_vars

\* a name in mixed case registered a handler after another name was rejected
MixedCaseNameAccepted ==
    /\ lastAdd.isStr /\ lastAdd.name = <<"U", "p", "d", "a", "t", "e", "d">>
    /\ lastAdd.raised = NoExc
    /\ handlers = [e \in MonitorEvent |-> IF e = "UPDATED" THEN <<"h">> ELSE <<>>]
    /\ lastAdd.n = 0

\* C12: a CpuCoresMonitor built with smoothing_duration_s = 0 (and any
\* interval) does not smooth: every UPDATED event carries the raw global
\* sample and the raw per-core samples of its own polling step.
SmoothingOffEmitsRaw ==
    (kind = "cpu" /\ smoothing_duration_s = 0 /\ lastEv.type = "UPDATED") =>
        /\ rawRun # <<>>
        /\ RatEq(lastEv.args[1], Rat(rawRun[Len(rawRun)][1], 1))
        /\ Len(lastEv.args[2]) = NumCores
        /\ \A c \in 1..NumCores :
              RatEq(lastEv.args[2][c], Rat(rawRun[Len(rawRun)][2][c], 1))

\* without smoothing a sample of 0 that follows a sample of 100 is emitted as 0
RawSampleAfterDifferentOne ==
    /\ kind = "cpu" /\ smoothing_duration_s = 0 /\ lastEv.type = "UPDATED"
    /\ Len(history) = 2
    /\ history[1][1].num = 100 * history[1][1].den
    /\ history[2] = lastEv.args /\ lastEv.args[1].num = 0
    /\ rawRun[Len(rawRun)][1] = 0

\* the positions of start() between the STARTED event and the end of the run
AfterStarted == {"prefill", "loop", "sleep", "check", "sample"}

\* C13: a CpuCoresMonitor with history_length = H > 0 has a history of
\* exactly H entries from the STARTED event until the run finishes, and so
\* whenever a STARTED or an UPDATED handler runs.
HistoryFullFromStarted ==
    (kind = "cpu" /\ HistoryEnabled) =>
        /\ lastEv.type \in {"STARTED", "UPDATED"} => lastEv.hlen = history_length
        /\ pc[T1] \in AfterStarted => Len(history) = history_length

\* the processes of a table that have the name the call was given
Namesakes(f) == {p \in DOMAIN f.table : f.table[p] # <<>> /\ f.table[p] = f.id}

\* C14: when the identifier parses as an integer, find_process_by_id_or_name
\* looks the process up by PID only: it returns that process or raises
\* NoSuchProcess / AccessDenied and never searches by name.  Otherwise it
\* searches by exact name, returns the process when exactly one has that
\* name and raises ValueError when none or several have it.
FindByPidOnlyOrByName ==
    found.outcome # "none" =>
        IF ParseInt(found.id).ok
        THEN /\ ~found.byName
             /\ \/ found.outcome \in {"NoSuchProcess", "AccessDenied"}
                \/ /\ found.outcome = "return"
                   /\ found.pid = ParseInt(found.id).val
                   /\ found.table[found.pid] # <<>>
        ELSE IF Cardinality(Namesakes(found)) = 1
        THEN found.outcome = "return" /\ found.pid \in Namesakes(found)
        ELSE found.outcome = "ValueError"

FieldUnits(parts) == {parts[i].unit : i \in 1..Len(parts)}

\* C15: duration_human(d, short=True) of a non-negative d includes no hour
\* field and no minute field whose value is zero, and always includes the
\* seconds field; with short=False the hour, minute and second fields are
\* always present.
ShortOmitsZeroFields ==
    humanized.parts # <<>> =>
        IF humanized.short
        THEN /\ \A i \in 1..Len(humanized.parts) :
                   humanized.parts[i].unit \in {"h", "m"} => humanized.parts[i].val # 0
             /\ "s" \in FieldUnits(humanized.parts)
        ELSE {"h", "m", "s"} \subseteq FieldUnits(humanized.parts)

\* C16: every run emits FINISHED exactly once (so that each FINISHED handler
\* is invoked exactly once), for the three monitors and whether the run ends
\* by stop(), by the process disappearing or by an error: never a second
\* FINISHED, and one FINISHED by the time start() reaches its finally clause.
FinishedExactlyOnce ==
    /\ lastEv.nfinished <= 1
    /\ pc[T1] = "finally" => lastEv.nfinished = 1

\* C18: after a stop() on a running monitor (and no start() since) the run
\* emits at most one more UPDATED event, and none when the stop() came while
\* the loop was blocked in its sleep / measurement interval.
AtMostOneUpdateAfterStop ==
    /\ lastEv.nlate <= 1
    /\ stoppedIn = "sleep" => lastEv.nlate = 0

\* a stop() between the check and the sample let one UPDATED through, and
\* the run then ended
OneUpdateAfterStop ==
    /\ stopReq /\ stoppedIn = "awake" /\ lastEv.nlate = 1
    /\ RunEnded /\ ~runErr

\* C19: within a run on one thread STARTED is emitted at most once and before
\* any UPDATED, every UPDATED comes after the run's STARTED, and neither is
\* emitted after the run's FINISHED.
EventOrderInRun ==
    /\ lastEv.nstarted <= 1
    /\ lastEv.type = "STARTED" =>
          lastEv.nstarted = 1 /\ ~lastEv.updated /\ lastEv.nfinished = 0
    /\ lastEv.type = "UPDATED" =>
          lastEv.nstarted = 1 /\ lastEv.nfinished = 0

\* a run went through STARTED, UPDATED and FINISHED and start() has returned
FullRunOfEvents ==
    /\ pc[T1] = "idle" /\ lastEv.type = "FINISHED"
    /\ lastEv.nstarted = 1 /\ lastEv.updated /\ lastEv.nfinished = 1
    /\ lastUpdated # <<>>

\* the positions of start() inside _run_loop
InLoop(t) == pc[t] \in {"loop", "sleep", "check", "sample", "nsp"}

\* C17: a monitor has at most one polling loop active at a time, whatever
\* the interleaving of start() and stop() calls from several threads.
AtMostOneLoop == ~(InLoop(T1) /\ InLoop(T2))

\* poll() takes at most one event from the queue per run, and once
\* start_polling was called poll() stays scheduled
PollKeepsRunning ==
    /\ [][Len(deliveredIds') <= Len(deliveredIds) + 1]_vars
    /\ [][poller.scheduled => poller'.scheduled]_vars

\* C20 (as stated): once start_polling was called, poll() takes at most one
\* event per tick and always re-schedules itself, so that every event put on
\* the queue is eventually delivered to the handlers registered for its name:
\* it is eventually taken from the queue, and no handler of its name misses
\* an event that was taken from the queue.
EveryEventReachesItsHandlers ==
    /\ PollKeepsRunning
    /\ [](~poller.skipped)
    /\ \A i \in 1..MaxPut : (nput >= i /\ poller.scheduled) ~> (Len(deliveredIds) >= i)

\* C20 (amended): once start_polling was called, poll() takes at most one
\* event per tick and always re-schedules itself, so that every event put on
\* the queue is eventually taken from it and handed to the handlers of its
\* name in registration order; a handler misses an event only when a handler
\* registered before it raised on that event.
EveryEventIsDispatched ==
    /\ PollKeepsRunning
    /\ [](poller.skipped => poller.raised)
    /\ \A i \in 1..MaxPut : (poller.scheduled /\ nput >= i) ~> (Len(deliveredIds) >= i)

\* a handler raised on one event, and the events after it still reached the view
DeliveredAfterHandlerRaised ==
    /\ host = "tk" /\ poller.scheduled /\ poller.raised /\ poller.skipped
    /\ update_queue = <<>> /\ Len(deliveredIds) = nput /\ nput >= 2
    /\ last_data # <<>> /\ last_data = lastUpdated

\* the 'finished' item a failed lookup puts on the queue
FailureItems ==
    {i \in 1..Len(update_queue) :
        /\ update_queue[i].name = "finished"
        /\ update_queue[i].data[1] = FALSE
        /\ update_queue[i].data[2][2] = tk_process.lookup}

\* C21: when the lookup of a Tk ProcessMonitorViewModel ends with ValueError
\* or NoSuchProcess, the constructor does not raise, exactly one
\* ('finished', (False, message)) item is put on the queue, _process is None,
\* and every later start() does nothing: no handler is registered on a
\* monitor and no thread is started.
NoProcessNoMonitor ==
    (host = "tk" /\ kind = "proc" /\ tk_process.lookup \in {"ValueError", "NoSuchProcess"}) =>
        /\ tk_process.built /\ tk_process.raised = NoExc
        /\ ~tk_process.attached
        /\ nput = 1
        /\ deliveredIds \o QueueIds = <<1>>
        /\ update_queue # <<>> => FailureItems = {1}
        /\ pc[T1] = "off" /\ ~is_running
        /\ \A e \in MonitorEvent : handlers[e] = <<>>
        /\ lastEv = NoEvent

\* start() was called on a view-model without process, and poll() has handed
\* the message to the view
StartedWithoutProcess ==
    /\ host = "tk" /\ kind = "proc" /\ tk_process.lookup = "NoSuchProcess"
    /\ tk_process.starts = 1
    /\ deliveredIds = <<1>> /\ update_queue = <<>>
    /\ viewRunBy = {Gui}

====
